---- MODULE Spec2Model ----
(***************************************************************************)
(* Model of snippet.js: a command-line snippet manager that keeps its      *)
(* records in one JSON file and offers the commands add, search, list and  *)
(* export.                                                                 *)
(*                                                                         *)
(* Text that the program inspects character by character (language,        *)
(* category, tag input, the copy id) is a sequence of one-character        *)
(* strings; text it only tests for emptiness or copies (title, code,       *)
(* description) is a TLA+ string.                                          *)
(***************************************************************************)
EXTENDS Integers, Sequences, FiniteSets, TLC

\* ------------------------------------------------------------------ bounds

\* Invocations of the program in one behaviour (the clock ticks once per
\* invocation and no invocation starts once it shows MaxClock).
MaxClock == 3

\* Matches one search prints.
MaxResults == 2

\* ------------------------------------------------------------ text helpers

Whitespace == {" "}

Digits == <<"0", "1", "2", "3", "4", "5", "6", "7", "8", "9">>

isDigit(c) == \E i \in DOMAIN Digits : Digits[i] = c

digitValue(c) == (CHOOSE i \in DOMAIN Digits : Digits[i] = c) - 1

lowerChar(c) ==
  CASE c = "P" -> "p"
    [] c = "Y" -> "y"
    [] c = "J" -> "j"
    [] c = "S" -> "s"
    [] c = "G" -> "g"
    [] c = "R" -> "r"
    [] c = "E" -> "e"
    [] OTHER -> c

\* String.prototype.toLowerCase
toLowerCase(s) == [i \in 1..Len(s) |-> lowerChar(s[i])]

RECURSIVE trimStart(_)
trimStart(s) ==
  IF s # <<>> /\ Head(s) \in Whitespace THEN trimStart(Tail(s)) ELSE s

RECURSIVE trimEnd(_)
trimEnd(s) ==
  IF s # <<>> /\ s[Len(s)] \in Whitespace
  THEN trimEnd(SubSeq(s, 1, Len(s) - 1))
  ELSE s

\* String.prototype.trim
trim(s) == trimEnd(trimStart(s))

\* String.prototype.split(sep) for a one-character separator: always at
\* least one token, the empty text gives one empty token.
RECURSIVE split(_, _)
split(s, sep) ==
  IF s = <<>> THEN << <<>> >>
  ELSE LET rest == split(Tail(s), sep)
       IN  IF Head(s) = sep
           THEN << <<>> >> \o rest
           ELSE << <<Head(s)>> \o Head(rest) >> \o Tail(rest)

\* Array.prototype.join(sep)
RECURSIVE join(_, _)
join(parts, sep) ==
  IF parts = <<>> THEN <<>>
  ELSE IF Len(parts) = 1 THEN parts[1]
  ELSE parts[1] \o sep \o join(Tail(parts), sep)

\* The value parseInt gives: NaN, or the integer n.
NaN == [nan |-> TRUE, n |-> 0]

RECURSIVE digitsPrefix(_, _)
digitsPrefix(s, acc) ==
  IF s # <<>> /\ isDigit(Head(s))
  THEN digitsPrefix(Tail(s), [nan |-> FALSE, n |-> acc.n * 10 + digitValue(Head(s))])
  ELSE acc

\* parseInt(text): leading whitespace is skipped, then the longest prefix of
\* decimal digits is read; NaN when there is none.
parseInt(s) == digitsPrefix(trimStart(s), NaN)


\* ------------------------------------------------------------- the records

SNIPPET_FILE == "~/.snippets.json"

\* a variant that exports over the backing file
ExportJsonPathHome == "~/.snippets.json"

ExportJsonPath == "./snippets-export.json"

ExportMdPath == "./snippets-export.md"

Paths == {SNIPPET_FILE, ExportJsonPath, ExportMdPath}

\* The defaults of the language and category questions.
javascript == <<"j", "a", "v", "a", "s", "c", "r", "i", "p", "t">>

General == <<"G", "e", "n", "e", "r", "a", "l">>

Questions == <<"title", "code", "language", "tags", "category", "description">>

\* What a user types at the six questions of add.
Sheets ==
  { [title |-> "Debounce", code |-> "c1", language |-> <<>>,
     tags |-> <<"u", ",", " ", ",", " ", "j", " ">>,
     category |-> <<>>, description |-> ""],
    [title |-> "Fetch", code |-> "c2", language |-> <<"P", "y">>,
     tags |-> <<>>, category |-> <<"R", "e">>, description |-> "d"] }

\* Contents a file can have: no file, a file that cannot be read, text that
\* is not JSON, a JSON array of records, or the Markdown document.
AbsentFile == [kind |-> "absent", data |-> <<>>]

UnreadableFile == [kind |-> "unreadable", data |-> <<>>]

CorruptFile == [kind |-> "corrupt", data |-> <<>>]

JsonFile(records) == [kind |-> "json", data |-> records]

TextFile(doc) == [kind |-> "text", data |-> doc]

\* A backing file that was edited by hand: the ids are not 1..N.
ForeignRecords ==
  << [id |-> 3, title |-> "Map", code |-> "c3", language |-> <<"p", "y">>,
      tags |-> << <<"a">> >>, category |-> General, description |-> "",
      createdAt |-> 0],
     [id |-> 1, title |-> "Zip", code |-> "c4", language |-> <<"J", "S">>,
      tags |-> <<>>, category |-> <<"r", "e">>, description |-> "z",
      createdAt |-> 0] >>

InitFiles ==
  {AbsentFile, UnreadableFile, CorruptFile, JsonFile(<<>>), JsonFile(ForeignRecords)}

FreshFiles == {AbsentFile, JsonFile(<<>>)}

\* ---------------------------------------------------------------- the state

Procs == {"p1", "p2"}

VARIABLES
  fs,          \* the files: the backing file and the two export files
  clipboard,   \* the system clipboard
  now,         \* the clock
  proc,        \* per invocation: its command, position, arguments and locals
  obs,         \* per invocation: what it found at its start and did since
  lastWriter   \* the process whose save wrote the backing file last

vars == <<fs, clipboard, now, proc, obs, lastWriter>>

BlankAnswers ==
  [title |-> "", code |-> "", language |-> <<>>, tags |-> <<>>,
   category |-> <<>>, description |-> ""]

NotGiven == [given |-> FALSE, value |-> <<>>]

Given(v) == [given |-> TRUE, value |-> v]

IdleProc ==
  [pc |-> "idle", cmd |-> "none", typed |-> BlankAnswers, answers |-> BlankAnswers,
   answered |-> {}, promptErr |-> FALSE, snippets |-> <<>>, results |-> <<>>,
   opts |-> [lang |-> NotGiven, category |-> NotGiven], format |-> "",
   copyId |-> <<>>, out |-> <<>>]

IdleObs(files, clip) ==
  [startFs |-> files, startClip |-> clip, writes |-> 0, stale |-> FALSE]

InitWith(files) ==
  /\ fs \in {[p \in Paths |-> IF p = SNIPPET_FILE THEN f ELSE AbsentFile] : f \in files}
  /\ clipboard = ""
  /\ now = 0
  /\ proc = [p \in Procs |-> IdleProc]
  /\ obs = [p \in Procs |-> IdleObs(fs, clipboard)]
  /\ lastWriter = "none"

Init == InitWith(InitFiles)

FreshInit == InitWith(FreshFiles)

\* --------------------------------------------------------------- repository

\* fs.readJson: the parsed array, or a rejection.
readJson(f) == [threw |-> f.kind # "json", value |-> f.data]

\* a variant of loadSnippets without the catch
loadSnippetsNoCatch(f) == readJson(f)

\* loadSnippets: the rejection is caught and answered with the empty array.
loadSnippets(f) ==
  IF readJson(f).threw THEN [threw |-> FALSE, value |-> <<>>] ELSE readJson(f)

\* a variant that writes only the item pushed last
writeJsonLast(f, obj) ==
  IF obj = <<>> THEN [kind |-> "json", data |-> <<>>]
  ELSE [kind |-> "json", data |-> <<obj[Len(obj)]>>]

\* a variant that re-reads the file and appends the item pushed last to it
writeJsonMerge(f, obj) ==
  IF obj = <<>> THEN [kind |-> "json", data |-> <<>>]
  ELSE [kind |-> "json", data |-> readJson(f).value \o <<obj[Len(obj)]>>]

\* fs.writeJson(file, obj): the file is overwritten with the whole array.
writeJson(f, obj) == JsonFile(obj)

Say(text) == [msg |-> text]


Running(p) == proc[p].pc \notin {"idle", "done", "failed", "killed"}

\* Every invocation starts at a later reading of the clock.
Begin(p) ==
  /\ proc[p].pc = "idle"
  /\ now < MaxClock
  /\ now' = now + 1
  /\ obs' = [obs EXCEPT ![p] = IdleObs(fs, clipboard)]

\* ---------------------------------------------------------------------- add

\* a variant that accepts every title
validateAny(input) == TRUE

\* validate of the title question
validateTitle(input) == input # ""

\* an input question with a default: the empty answer gives the default
withDefault(input, default) == IF input = <<>> THEN default ELSE input

\* filter of the tags question
tagsFilter(input) ==
  LET tokens == split(input, ",")
      trimmed == [i \in 1..Len(tokens) |-> trim(tokens[i])]
  IN  SelectSeq(trimmed, LAMBDA tag : tag # <<>>)

\* a variant that numbers after the largest id in use
nextIdMax(snippets) ==
  IF snippets = <<>> THEN 1
  ELSE 1 + (CHOOSE m \in {snippets[i].id : i \in 1..Len(snippets)} :
              \A i \in 1..Len(snippets) : snippets[i].id <= m)

nextId(snippets) == Len(snippets) + 1

newSnippet(snippets, answers, time) ==
  [id |-> nextId(snippets), title |-> answers.title, code |-> answers.code,
   language |-> answers.language, tags |-> answers.tags,
   category |-> answers.category, description |-> answers.description,
   createdAt |-> time]

\* a variant that puts the item first
unshift(snippets, item) == <<item>> \o snippets

\* snippets.push(item)
push(snippets, item) == Append(snippets, item)

Answer(p, question, value, next) ==
  proc' = [proc EXCEPT ![p].answers[question] = value,
                       ![p].answered = @ \cup {question},
                       ![p].promptErr = FALSE,
                       ![p].pc = next]

StartAdd(p) ==
  /\ Begin(p)
  /\ \E sheet \in Sheets :
       proc' = [proc EXCEPT ![p].cmd = "add", ![p].pc = "title", ![p].typed = sheet]
  /\ UNCHANGED <<fs, clipboard, lastWriter>>

\* The title question: an empty answer is refused and the question stays.
PromptTitle(p) ==
  /\ proc[p].pc = "title"
  /\ \E input \in {"", proc[p].typed.title} :
       IF validateTitle(input)
       THEN Answer(p, "title", input, "code")
       ELSE proc' = [proc EXCEPT ![p].promptErr = TRUE]
  /\ UNCHANGED <<fs, clipboard, now, obs, lastWriter>>

PromptCode(p) ==
  /\ proc[p].pc = "code"
  /\ Answer(p, "code", proc[p].typed.code, "language")
  /\ UNCHANGED <<fs, clipboard, now, obs, lastWriter>>

PromptLanguage(p) ==
  /\ proc[p].pc = "language"
  /\ Answer(p, "language", withDefault(proc[p].typed.language, javascript), "tags")
  /\ UNCHANGED <<fs, clipboard, now, obs, lastWriter>>

PromptTags(p) ==
  /\ proc[p].pc = "tags"
  /\ Answer(p, "tags", tagsFilter(proc[p].typed.tags), "category")
  /\ UNCHANGED <<fs, clipboard, now, obs, lastWriter>>

PromptCategory(p) ==
  /\ proc[p].pc = "category"
  /\ Answer(p, "category", withDefault(proc[p].typed.category, General), "description")
  /\ UNCHANGED <<fs, clipboard, now, obs, lastWriter>>

PromptDescription(p) ==
  /\ proc[p].pc = "description"
  /\ Answer(p, "description", proc[p].typed.description, "load")
  /\ UNCHANGED <<fs, clipboard, now, obs, lastWriter>>

\* const snippets = await loadSnippets(); snippets.push({...})
AddLoad(p) ==
  /\ proc[p].pc = "load"
  /\ LET loaded == loadSnippets(fs[SNIPPET_FILE])
     IN  IF loaded.threw
         THEN proc' = [proc EXCEPT ![p].pc = "failed"]
         ELSE proc' = [proc EXCEPT
                ![p].snippets =
                  push(loaded.value, newSnippet(loaded.value, proc[p].answers, now)),
                ![p].pc = "save"]
  /\ obs' = [obs EXCEPT ![p].stale = FALSE]
  /\ UNCHANGED <<fs, clipboard, now, lastWriter>>

\* await saveSnippets(snippets), and the two confirmations
AddSave(p) ==
  /\ proc[p].pc = "save"
  /\ fs' = [fs EXCEPT ![SNIPPET_FILE] = writeJson(@, proc[p].snippets)]
  /\ proc' = [proc EXCEPT
       ![p].out = @ \o <<Say("Snippets saved!"),
                         [msg |-> "added", title |-> proc[p].answers.title]>>,
       ![p].pc = "done"]
  /\ obs' = [q \in Procs |->
       IF q = p THEN [obs[q] EXCEPT !.writes = @ + 1]
       ELSE IF proc[q].pc = "save" THEN [obs[q] EXCEPT !.stale = TRUE]
       ELSE obs[q]]
  /\ lastWriter' = p
  /\ UNCHANGED <<clipboard, now>>

\* fs.writeJson rejects: nothing catches it and the command ends.
AddSaveFail(p) ==
  /\ proc[p].pc = "save"
  /\ proc' = [proc EXCEPT ![p].pc = "failed"]
  /\ UNCHANGED <<fs, clipboard, now, obs, lastWriter>>

\* The process is interrupted while it waits (a prompt, the file system).
Kill(p) ==
  /\ Running(p)
  /\ proc' = [proc EXCEPT ![p].pc = "killed"]
  /\ UNCHANGED <<fs, clipboard, now, obs, lastWriter>>

\* The process is gone; the next invocation starts from nothing.
Exit(p) ==
  /\ proc[p].pc \in {"done", "failed", "killed"}
  /\ proc' = [proc EXCEPT ![p] = IdleProc]
  /\ obs' = [obs EXCEPT ![p] = IdleObs(fs, clipboard)]
  /\ UNCHANGED <<fs, clipboard, now, lastWriter>>

Add(p) ==
  \/ StartAdd(p)
  \/ PromptTitle(p)
  \/ PromptCode(p)
  \/ PromptLanguage(p)
  \/ PromptTags(p)
  \/ PromptCategory(p)
  \/ PromptDescription(p)
  \/ AddLoad(p)
  \/ AddSave(p)
  \/ AddSaveFail(p)

\* ------------------------------------------------------------------- search

\* Matches a query can have: fuse.search gives some of the records, each
\* once, in the order of its scores.  At most MaxResults of them here.
fuseSearch(snippets) ==
  LET n == Len(snippets)
      picks == UNION {{ix \in [1..k -> 1..n] :
                         \A i, j \in 1..k : i # j => ix[i] # ix[j]} :
                      k \in 0..(IF n < MaxResults THEN n ELSE MaxResults)}
  IN  {[i \in 1..Len(ix) |-> snippets[ix[i]]] : ix \in picks}

orNone(description) == IF description = "" THEN "None" ELSE description

\* the lines search prints for one match
printSnippet(s) ==
  [msg |-> "snippet", id |-> s.id, title |-> s.title, language |-> s.language,
   category |-> s.category, tags |-> join(s.tags, <<",", " ">>),
   description |-> orNone(s.description), code |-> s.code]

CopyPrompt == Say("Enter snippet ID to copy to clipboard (or press Enter to skip):")

\* What a user answers to the copy prompt.
CopyInputs ==
  {<<>>, <<"1">>, <<"3">>, <<" ", "2">>, <<"1", "x">>, <<"x", "1">>, <<"9">>, <<" ">>}

\* snippets.find(s => s.id === parseInt(copyId)): the position of the first
\* such record, 0 when there is none.
find(snippets, wanted) ==
  LET hits == {i \in 1..Len(snippets) : ~wanted.nan /\ snippets[i].id = wanted.n}
  IN  IF hits = {} THEN 0 ELSE CHOOSE i \in hits : \A j \in hits : i <= j

\* a variant that copies the title
clipTitle(snippet) == snippet.title

\* the text clipboardy.writeSync is given
clipText(snippet) == snippet.code

StartSearch(p) ==
  /\ Begin(p)
  /\ LET loaded == loadSnippets(fs[SNIPPET_FILE])
     IN  IF loaded.threw
         THEN proc' = [proc EXCEPT ![p].cmd = "search", ![p].pc = "failed"]
         ELSE \E found \in fuseSearch(loaded.value) :
                proc' = [proc EXCEPT
                  ![p].cmd = "search",
                  ![p].snippets = loaded.value,
                  ![p].results = found,
                  ![p].out =
                    IF found = <<>> THEN <<Say("No snippets found.")>>
                    ELSE [i \in 1..Len(found) |-> printSnippet(found[i])] \o <<CopyPrompt>>,
                  ![p].pc = IF found = <<>> THEN "done" ELSE "copy"]
  /\ UNCHANGED <<fs, clipboard, lastWriter>>

SearchCopy(p) ==
  /\ proc[p].pc = "copy"
  /\ \E copyId \in CopyInputs :
       LET hit == find(proc[p].snippets, parseInt(copyId))
       IN  /\ clipboard' = IF copyId # <<>> /\ hit # 0
                           THEN clipText(proc[p].snippets[hit])
                           ELSE clipboard
           /\ proc' = [proc EXCEPT
                ![p].copyId = copyId,
                ![p].out =
                  IF copyId = <<>> THEN @
                  ELSE IF hit # 0
                  THEN @ \o <<[msg |-> "copied", title |-> proc[p].snippets[hit].title]>>
                  ELSE @ \o <<Say("Invalid snippet ID.")>>,
                ![p].pc = "done"]
  /\ UNCHANGED <<fs, now, obs, lastWriter>>

Search(p) == StartSearch(p) \/ SearchCopy(p)

\* --------------------------------------------------------------------- list

LangOptions == {NotGiven, Given(<<>>), Given(<<"P", "Y">>), Given(<<"j", "s">>)}

CategoryOptions ==
  {NotGiven, Given(<<>>), Given(<<"g", "e", "n", "e", "r", "a", "l">>), Given(<<"R", "E">>)}

\* if (options.lang): undefined and the empty text are both falsy
truthy(opt) == opt.given /\ opt.value # <<>>

listFilter(snippets, opts) ==
  LET byLang ==
        IF truthy(opts.lang)
        THEN SelectSeq(snippets,
               LAMBDA s : toLowerCase(s.language) = toLowerCase(opts.lang.value))
        ELSE snippets
  IN  IF truthy(opts.category)
      THEN SelectSeq(byLang,
             LAMBDA s : toLowerCase(s.category) = toLowerCase(opts.category.value))
      ELSE byLang

\* the lines list prints for one record
printEntry(s) ==
  [msg |-> "entry", id |-> s.id, title |-> s.title, language |-> s.language,
   category |-> s.category, tags |-> join(s.tags, <<",", " ">>)]

List(p) ==
  /\ Begin(p)
  /\ LET loaded == loadSnippets(fs[SNIPPET_FILE])
     IN  IF loaded.threw
         THEN proc' = [proc EXCEPT ![p].cmd = "list", ![p].pc = "failed"]
         ELSE \E lang \in LangOptions, category \in CategoryOptions :
                LET options == [lang |-> lang, category |-> category]
                    filtered == listFilter(loaded.value, options)
                IN  proc' = [proc EXCEPT
                      ![p].cmd = "list",
                      ![p].opts = options,
                      ![p].snippets = loaded.value,
                      ![p].results = filtered,
                      ![p].out =
                        IF filtered = <<>> THEN <<Say("No snippets found.")>>
                        ELSE [i \in 1..Len(filtered) |-> printEntry(filtered[i])],
                      ![p].pc = "done"]
  /\ UNCHANGED <<fs, clipboard, lastWriter>>

\* ------------------------------------------------------------------- export

Formats == {"json", "markdown", "yaml", "JSON"}

\* a variant that takes every other format for JSON
exportBranchLoose(format) == IF format = "markdown" THEN "markdown" ELSE "json"

\* the branch exportSnippets takes
exportBranch(format) ==
  IF format = "json" THEN "json"
  ELSE IF format = "markdown" THEN "markdown"
  ELSE "unsupported"

\* the Markdown document: the heading, then one section per record
markdown(snippets) ==
  <<[h1 |-> "# Code Snippets"]>> \o
  [i \in 1..Len(snippets) |->
     [h2 |-> snippets[i].title, language |-> snippets[i].language,
      category |-> snippets[i].category,
      tags |-> join(snippets[i].tags, <<",", " ">>),
      description |-> orNone(snippets[i].description),
      fence |-> snippets[i].language, code |-> snippets[i].code]]

StartExport(p) ==
  /\ Begin(p)
  /\ LET loaded == loadSnippets(fs[SNIPPET_FILE])
     IN  IF loaded.threw
         THEN proc' = [proc EXCEPT ![p].cmd = "export", ![p].pc = "failed"]
         ELSE \E format \in Formats :
                proc' = [proc EXCEPT
                  ![p].cmd = "export", ![p].format = format,
                  ![p].snippets = loaded.value, ![p].pc = "write"]
  /\ UNCHANGED <<fs, clipboard, lastWriter>>

ExportWrite(p) ==
  /\ proc[p].pc = "write"
  /\ LET branch == exportBranch(proc[p].format)
     IN  /\ fs' =
              IF branch = "json"
              THEN [fs EXCEPT ![ExportJsonPath] = writeJson(@, proc[p].snippets)]
              ELSE IF branch = "markdown"
              THEN [fs EXCEPT ![ExportMdPath] = TextFile(markdown(proc[p].snippets))]
              ELSE fs
         /\ proc' = [proc EXCEPT
              ![p].out =
                IF branch = "json"
                THEN <<Say("Snippets exported to snippets-export.json")>>
                ELSE IF branch = "markdown"
                THEN <<Say("Snippets exported to snippets-export.md")>>
                ELSE <<Say("Unsupported format. Use \"json\" or \"markdown\".")>>,
              ![p].pc = "done"]
  /\ UNCHANGED <<clipboard, now, obs, lastWriter>>

\* The write of the export file rejects: nothing catches it.
ExportFail(p) ==
  /\ proc[p].pc = "write"
  /\ exportBranch(proc[p].format) # "unsupported"
  /\ proc' = [proc EXCEPT ![p].pc = "failed"]
  /\ UNCHANGED <<fs, clipboard, now, obs, lastWriter>>

Export(p) == StartExport(p) \/ ExportWrite(p) \/ ExportFail(p)

\* ----------------------------------------------------------- specifications

\* One invocation at a time, any command.
Next ==
  \/ Add("p1")
  \/ Search("p1")
  \/ List("p1")
  \/ Export("p1")
  \/ Kill("p1")
  \/ Exit("p1")

Spec == Init /\ [][Next]_vars

\* One invocation at a time, from a store that is empty or not there yet.
FreshSpec == FreshInit /\ [][Next]_vars

\* Two invocations of add at a time.
RaceNext == \E p \in Procs : Add(p) \/ Kill(p) \/ Exit(p)

RaceSpec == Init /\ [][RaceNext]_vars


\* ------------------------------------------------------------------- claims

File == fs[SNIPPET_FILE]

\* the records a file stores (none unless it is a JSON array)
Stored(f) == IF f.kind = "json" THEN f.data ELSE <<>>

Front(seq) == SubSeq(seq, 1, Len(seq) - 1)

AllAnswered == {Questions[i] : i \in 1..Len(Questions)}

\* the step in which the add of p saves
Saves(p) == proc[p].pc = "save" /\ proc'[p].pc = "done"

\* C1 as stated: a completed add on a file of N records appends one record
\* with id N+1, renumbers no existing record, and its id is the id of no
\* existing record, whatever the existing ids are.
C1_AsStated ==
  [][\A p \in Procs : Saves(p) =>
       LET R == Stored(File)
           N == Len(R)
           F == fs'[SNIPPET_FILE].data
       IN  /\ Len(F) = N + 1
           /\ F[N + 1].id = N + 1
           /\ \A i \in 1..N : F[i].id = R[i].id
           /\ \A i \in 1..N : R[i].id # F[N + 1].id]_vars

\* C1 amended: a completed add on a file of N records appends one record
\* with id N+1 and renumbers no existing record, whatever the existing ids
\* are; the new id is the id of no existing record when the existing ids
\* are all at most N.
C1_NextId ==
  [][\A p \in Procs : Saves(p) =>
       LET R == Stored(File)
           N == Len(R)
           F == fs'[SNIPPET_FILE].data
       IN  /\ Len(F) = N + 1
           /\ F[N + 1].id = N + 1
           /\ \A i \in 1..N : F[i].id = R[i].id
           /\ (\A i \in 1..N : R[i].id <= N) =>
                (\A i \in 1..N : R[i].id # F[N + 1].id)]_vars

\* An add has completed on the hand-edited file, whose ids are 3 and 1.
C1_Witness ==
  /\ proc["p1"].cmd = "add" /\ proc["p1"].pc = "done"
  /\ Len(File.data) = 3
  /\ File.data[1].id = 3 /\ File.data[2].id = 1 /\ File.data[3].id = 3

\* C2: from an empty or absent backing file, with one invocation at a time,
\* the ids of the stored records are pairwise distinct and strictly increase
\* with the position in the file.
C2_IdsIncrease ==
  LET F == Stored(File)
  IN  \A i, j \in 1..Len(F) : i < j => F[i].id < F[j].id

\* Three adds have completed one after the other.
C2_Witness ==
  /\ Len(Stored(File)) = 3
  /\ proc["p1"].cmd = "add" /\ proc["p1"].pc = "done"

\* C3: with one invocation at a time, every change of the backing file
\* leaves a JSON array that is the records stored before, unchanged and in
\* their order, followed by exactly one new record.
C3_AppendOnly ==
  [][File' # File =>
       LET R == Stored(File)
           F == fs'[SNIPPET_FILE]
       IN  /\ F.kind = "json"
           /\ Len(F.data) = Len(R) + 1
           /\ SubSeq(F.data, 1, Len(R)) = R]_vars

\* An add has completed on a file that held two records, and they are kept.
C3_Witness ==
  /\ proc["p1"].cmd = "add" /\ proc["p1"].pc = "done"
  /\ obs["p1"].startFs[SNIPPET_FILE].kind = "json"
  /\ Len(obs["p1"].startFs[SNIPPET_FILE].data) = 2
  /\ File.data = obs["p1"].startFs[SNIPPET_FILE].data \o <<proc["p1"].snippets[3]>>

\* the step in which p calls loadSnippets
Loads(p) ==
  \/ proc[p].pc = "idle" /\ proc'[p].cmd \in {"search", "list", "export"}
  \/ proc[p].pc = "load" /\ proc'[p].pc \in {"save", "failed"}

\* C4: every call of load, the first and every later one, leaves all files
\* as they are, surfaces no error, and returns the stored array, which is
\* the empty array when the file is absent, unreadable or not JSON.
C4_Load ==
  [][\A p \in Procs : Loads(p) =>
       /\ fs' = fs
       /\ proc'[p].pc # "failed"
       /\ (IF proc'[p].cmd = "add"
           THEN Front(proc'[p].snippets)
           ELSE proc'[p].snippets) = Stored(File)
       /\ File.kind # "json" => Stored(File) = <<>>]_vars

\* A list, not the first invocation, has loaded a backing file that is not
\* JSON and got the empty array.
C4_Witness ==
  /\ proc["p1"].cmd = "list" /\ proc["p1"].pc = "done"
  /\ File.kind = "corrupt"
  /\ proc["p1"].snippets = <<>>
  /\ now >= 2

Succeeded(p) ==
  /\ proc[p].cmd = "add"
  /\ proc[p].pc = "done"
  /\ proc[p].out = <<Say("Snippets saved!"),
                     [msg |-> "added", title |-> proc[p].answers.title]>>

\* both adds have completed, q saved last, and p saved between the load and
\* the save of q
Raced(p, q) ==
  /\ p # q
  /\ proc[p].cmd = "add" /\ proc[p].pc = "done"
  /\ proc[q].cmd = "add" /\ proc[q].pc = "done"
  /\ lastWriter = q
  /\ obs[q].stale

\* C5: when two adds race (the one that saves last loaded before the other
\* saved), both report success and the backing file is exactly what the last
\* saver wrote: what it loaded and its own record.  When both loaded the same
\* records the file has one new record, not two, and the record of the
\* earlier saver is not in it.
C5_LostUpdate ==
  \A p, q \in Procs : Raced(p, q) =>
    /\ Succeeded(p) /\ Succeeded(q)
    /\ File = JsonFile(proc[q].snippets)
    /\ Front(proc[p].snippets) = Front(proc[q].snippets) =>
         /\ Len(File.data) = Len(Front(proc[p].snippets)) + 1
         /\ proc[p].snippets[Len(proc[p].snippets)] # proc[q].snippets[Len(proc[q].snippets)] =>
              \A i \in 1..Len(File.data) :
                File.data[i] # proc[p].snippets[Len(proc[p].snippets)]

\* Both adds loaded the same two records before either saved, typed different
\* answers, and both have completed.
C5_Witness ==
  /\ Raced("p1", "p2")
  /\ Front(proc["p1"].snippets) = Front(proc["p2"].snippets)
  /\ Len(proc["p1"].snippets) = 3
  /\ proc["p1"].answers.title # proc["p2"].answers.title

\* the step in which the export of p reaches its branch
Exports(p) == proc[p].pc = "write" /\ proc'[p].pc = "done"

\* C6: export with a format other than "json" and "markdown" changes no
\* file and prints the unsupported-format message only; export "json"
\* writes snippets-export.json only, export "markdown" writes
\* snippets-export.md only.
C6_Export ==
  [][\A p \in Procs : Exports(p) =>
       LET format == proc[p].format
       IN  /\ format \notin {"json", "markdown"} =>
                /\ fs' = fs
                /\ proc'[p].out = <<Say("Unsupported format. Use \"json\" or \"markdown\".")>>
           /\ format = "json" =>
                /\ \A path \in Paths \ {ExportJsonPath} : fs'[path] = fs[path]
                /\ fs'[ExportJsonPath] = JsonFile(proc[p].snippets)
           /\ format = "markdown" =>
                /\ \A path \in Paths \ {ExportMdPath} : fs'[path] = fs[path]
                /\ fs'[ExportMdPath].kind = "text"]_vars

\* An export "yaml" of a store with records has ended and no file changed.
C6_Witness ==
  /\ proc["p1"].cmd = "export" /\ proc["p1"].pc = "done"
  /\ proc["p1"].format = "yaml"
  /\ proc["p1"].snippets # <<>>
  /\ fs = obs["p1"].startFs
  /\ fs[ExportJsonPath].kind = "absent"

\* what C7 says a filter accepts: it is not supplied, or the field equals
\* its value ignoring case
Accepts(opt, field) == ~opt.given \/ toLowerCase(field) = toLowerCase(opt.value)

\* C7 as stated: list gives exactly the stored records, in stored order,
\* that every supplied filter accepts, and prints the "not found" notice
\* iff there is none.
C7_AsStated ==
  \A p \in Procs : proc[p].cmd = "list" /\ proc[p].pc = "done" =>
    /\ proc[p].results =
         SelectSeq(proc[p].snippets,
           LAMBDA s : /\ Accepts(proc[p].opts.lang, s.language)
                      /\ Accepts(proc[p].opts.category, s.category))
    /\ proc[p].out = <<Say("No snippets found.")>> <=> proc[p].results = <<>>

\* the lines a search prints before it waits for the copy id
Printed(p) ==
  [i \in 1..Len(proc[p].results) |-> printSnippet(proc[p].results[i])] \o <<CopyPrompt>>

\* C8: a search without a match prints the "not found" notice, asks nothing
\* and leaves the clipboard.  With a match it prints the matches and then asks
\* once; the empty answer leaves the clipboard and prints nothing more; an
\* answer whose number is the id of a stored record puts that record's code
\* on the clipboard and confirms with its title; any other answer prints the
\* error and leaves the clipboard.
C8_Clipboard ==
  \A p \in Procs : proc[p].cmd = "search" =>
    LET P == proc[p]
        wanted == parseInt(P.copyId)
        hits == {i \in 1..Len(P.snippets) : ~wanted.nan /\ P.snippets[i].id = wanted.n}
    IN  /\ P.pc = "copy" =>
             P.results # <<>> /\ P.out = Printed(p) /\ clipboard = obs[p].startClip
        /\ P.pc = "done" /\ P.results = <<>> =>
             P.out = <<Say("No snippets found.")>> /\ clipboard = obs[p].startClip
        /\ P.pc = "done" /\ P.results # <<>> =>
             /\ Cardinality({i \in 1..Len(P.out) : P.out[i] = CopyPrompt}) = 1
             /\ P.copyId = <<>> =>
                  P.out = Printed(p) /\ clipboard = obs[p].startClip
             /\ P.copyId # <<>> /\ hits # {} =>
                  \E i \in hits :
                    /\ clipboard = P.snippets[i].code
                    /\ P.out = Printed(p) \o
                         <<[msg |-> "copied", title |-> P.snippets[i].title]>>
             /\ P.copyId # <<>> /\ hits = {} =>
                  /\ P.out = Printed(p) \o <<Say("Invalid snippet ID.")>>
                  /\ clipboard = obs[p].startClip

\* A search printed one match and the answer "1x" copied the code of the
\* record with id 1, which is not the record printed.
C8_Witness ==
  /\ proc["p1"].cmd = "search" /\ proc["p1"].pc = "done"
  /\ proc["p1"].copyId = <<"1", "x">>
  /\ Len(proc["p1"].results) = 1 /\ proc["p1"].results[1].id = 3
  /\ clipboard = "c4"
  /\ obs["p1"].startClip # "c4"

\* C9: while an add is asking, has loaded but not saved, or was interrupted
\* or failed before its save, it has not written and the files are as they
\* were at its start; a completed add has written once; the backing file is
\* written only after all six questions are answered with a non-empty
\* title; a refused empty title leaves the add at the title question.
C9_WriteOnce ==
  \A p \in Procs : proc[p].cmd = "add" =>
    LET P == proc[p]
    IN  /\ P.pc # "done" => obs[p].writes = 0 /\ fs = obs[p].startFs
        /\ P.pc = "done" => obs[p].writes = 1
        /\ obs[p].writes > 0 => P.answered = AllAnswered /\ P.answers.title # ""
        /\ "title" \in P.answered => P.answers.title # ""
        /\ P.pc \notin {"title", "killed"} => "title" \in P.answered
        /\ P.promptErr => P.pc \in {"title", "killed"} /\ P.answered = {}

\* An add was interrupted after its six answers and its load, before its
\* save, and the backing file still holds what it held.
C9_Witness ==
  /\ proc["p1"].cmd = "add" /\ proc["p1"].pc = "killed"
  /\ proc["p1"].answered = AllAnswered
  /\ Len(proc["p1"].snippets) = 3
  /\ Len(File.data) = 2

\* C10: the backing file changes only in the save of an add: search, list
\* and export, whatever their arguments, leave it as it is, absent or
\* corrupt included.
C10_OnlyAddWrites ==
  [][File' # File => \E p \in Procs : proc[p].cmd = "add" /\ Saves(p)]_vars

\* An export "json" has written its file while the backing file stays absent.
C10_Witness ==
  /\ proc["p1"].cmd = "export" /\ proc["p1"].pc = "done"
  /\ proc["p1"].format = "json"
  /\ File.kind = "absent"
  /\ fs["./snippets-export.json"].kind = "json"

====
